---- MODULE Spec2Model ----
(***************************************************************************)
(* Model of factorial.py: get_numbers_up_to(n) and factorial(n), executed  *)
(* line by line by a set of callers, each with its own call frame.         *)
(*                                                                         *)
(* Python values are records [t, v]: t is the run-time type, v the number  *)
(* (for a float, v counts halves, so 3.5 is [t |-> "float", v |-> 7]; for  *)
(* a bool, v is 0 or 1 as bool is a subclass of int).  The accumulator     *)
(* `result` is a Python int of arbitrary precision: a little-endian        *)
(* sequence of limbs in base Base, never empty once bound.                 *)
(***************************************************************************)
EXTENDS Integers, Sequences, FiniteSets, TLC

\* ---- bounds ----
MaxN == 6
BigN == 21
MaxNeg == 2

Callers == {1, 2}

\* ---- Python values ----
Base == 10000

PyInt(k) == [t |-> "int", v |-> k]
PyFloat(h) == [t |-> "float", v |-> h]
PyStr(k) == [t |-> "str", v |-> k]
PyBool(b) == [t |-> "bool", v |-> b]

NoValue == <<>>
Unbound == [t |-> "unbound", v |-> 0]

\* the arguments a caller may pass, integers from -MaxNeg to m
Inputs(m) ==
    {PyInt(k) : k \in -MaxNeg..m}
      \cup {PyFloat(h) : h \in {-5, 6, 7}}
      \cup {PyStr(5)}
      \cup {PyBool(b) : b \in {0, 1}}

\* isinstance(n, int)
IsInstanceIntLoose(x) == x.t \in {"int", "bool", "float"}
IsInstanceInt(x) == x.t \in {"int", "bool"}

\* n < k and n == k for a number n and an int literal k
NumLess(x, k) == IF x.t = "float" THEN x.v < 2 * k ELSE x.v < k
NumEq(x, k) == IF x.t = "float" THEN x.v = 2 * k ELSE x.v = k

\* n < 0 (line 36) and n < 1 (line 16)
IsNegativeOffByOne(x) == NumLess(x, 1)
IsNegative(x) == NumLess(x, 0)
BelowOneOffByOne(x) == NumLess(x, 0)
BelowOne(x) == NumLess(x, 1)

\* n == 0 or n == 1 (line 38)
IsBaseCaseZeroOnly(x) == NumEq(x, 0)
IsBaseCase(x) == NumEq(x, 0) \/ NumEq(x, 1)

\* list(range(lo, hi))
RangeList(lo, hi) == [i \in 1..(hi - lo) |-> lo + i - 1]

\* list(range(1, n + 1)) (line 19)
NumbersUpToDescending(x) == [i \in 1..x.v |-> x.v - i + 1]
NumbersUpToFromZero(x) == RangeList(0, x.v + 1)
NumbersUpTo(x) == RangeList(1, x.v + 1)

\* ---- arbitrary-precision multiplication, result * num ----
RECURSIVE MulCarry(_, _, _, _)
MulCarry(a, m, i, carry) ==
    IF i > Len(a)
    THEN IF carry = 0 THEN <<>>
         ELSE <<carry % Base>> \o MulCarry(a, m, i, carry \div Base)
    ELSE LET p == a[i] * m + carry
         IN <<p % Base>> \o MulCarry(a, m, i + 1, p \div Base)

\* a fixed-width product: only the two low limbs are kept
PyMulWrap(a, m) ==
    LET p == MulCarry(a, m, 1, 0)
    IN IF Len(p) > 2 THEN SubSeq(p, 1, 2) ELSE p
PyMul(a, m) == MulCarry(a, m, 1, 0)

\* return 1 (line 39) and result = 1 (line 42)
BaseCaseValue == <<1>>
ResultSeedZero == <<0>>
ResultSeedTwo == <<2>>
ResultSeed == <<1>>

\* for num in numbers: result *= num, run to completion
RECURSIVE FoldMul(_, _, _)
FoldMul(s, i, acc) ==
    IF i > Len(s) THEN acc ELSE FoldMul(s, i + 1, PyMul(acc, s[i]))

\* ---- state ----
VARIABLES
    fn,       \* the function each caller calls: "factorial", "get_numbers_up_to", "none"
    arg,      \* the argument it passes
    pc,       \* the line the caller is at
    n,        \* factorial's parameter n
    gn,       \* get_numbers_up_to's parameter n
    numbers,  \* factorial's local numbers
    result,   \* factorial's local result
    idx,      \* position of the for loop's iterator in numbers
    num,      \* factorial's loop variable num
    out       \* what the call returned or raised

vars == <<fn, arg, pc, n, gn, numbers, result, idx, num, out>>

Fns == {"factorial", "get_numbers_up_to"}

NoOutcome == [kind |-> "none", val |-> NoValue, at |-> "none"]
Raise(kind, line) == [kind |-> kind, val |-> NoValue, at |-> line]
Return(kind, val, line) == [kind |-> kind, val |-> val, at |-> line]

\* ---- the two functions run alone, start to finish ----
GetNumbersUpTo(x) ==
    IF ~IsInstanceInt(x) THEN Raise("TypeError", "g15")
    ELSE IF BelowOne(x) THEN Raise("ValueError", "g17")
    ELSE Return("list", NumbersUpTo(x), "g19")

Factorial(x) ==
    IF ~IsInstanceInt(x) THEN Raise("TypeError", "f35")
    ELSE IF IsNegative(x) THEN Raise("ValueError", "f37")
    ELSE IF IsBaseCase(x) THEN Return("int", BaseCaseValue, "f39")
    ELSE LET g == GetNumbersUpTo(x)
         IN IF g.kind # "list" THEN g
            ELSE Return("int", FoldMul(g.val, 1, ResultSeed), "f45")

FrameInit ==
    /\ pc = [c \in Callers |-> "idle"]
    /\ n = [c \in Callers |-> Unbound]
    /\ gn = [c \in Callers |-> Unbound]
    /\ numbers = [c \in Callers |-> NoValue]
    /\ result = [c \in Callers |-> NoValue]
    /\ idx = [c \in Callers |-> 0]
    /\ num = [c \in Callers |-> 0]
    /\ out = [c \in Callers |-> NoOutcome]

\* every caller is about to make one call
Init ==
    /\ fn \in [Callers -> Fns]
    /\ arg \in [Callers -> Inputs(MaxN)]
    /\ FrameInit

\* a single caller, with arguments large enough to pass 2^64
InitBig ==
    /\ fn \in {f \in [Callers -> Fns \cup {"none"}] : f[2] = "none"}
    /\ arg \in {a \in [Callers -> Inputs(BigN)] : a[2] = PyInt(0)}
    /\ FrameInit

\* ---- the call ----
Call(c) ==
    /\ pc[c] = "idle"
    /\ fn[c] \in Fns
    /\ IF fn[c] = "factorial"
       THEN /\ n' = [n EXCEPT ![c] = arg[c]]
            /\ pc' = [pc EXCEPT ![c] = "f34"]
            /\ UNCHANGED gn
       ELSE /\ gn' = [gn EXCEPT ![c] = arg[c]]
            /\ pc' = [pc EXCEPT ![c] = "g14"]
            /\ UNCHANGED n
    /\ UNCHANGED <<fn, arg, numbers, result, idx, num, out>>

\* an exception leaves every frame of the caller
Raised(c, kind, line) ==
    /\ out' = [out EXCEPT ![c] = Raise(kind, line)]
    /\ pc' = [pc EXCEPT ![c] = "done"]

Goto(c, line) ==
    /\ pc' = [pc EXCEPT ![c] = line]
    /\ UNCHANGED out

\* ---- get_numbers_up_to ----
G14(c) ==
    /\ pc[c] = "g14"
    /\ IF ~IsInstanceInt(gn[c])
       THEN Raised(c, "TypeError", "g15")
       ELSE Goto(c, "g16")
    /\ UNCHANGED <<fn, arg, n, gn, numbers, result, idx, num>>

G16(c) ==
    /\ pc[c] = "g16"
    /\ IF BelowOne(gn[c])
       THEN Raised(c, "ValueError", "g17")
       ELSE Goto(c, "g19")
    /\ UNCHANGED <<fn, arg, n, gn, numbers, result, idx, num>>

\* return list(range(1, n + 1)), to factorial's line 41 or to the caller
G19(c) ==
    /\ pc[c] = "g19"
    /\ IF fn[c] = "factorial"
       THEN /\ numbers' = [numbers EXCEPT ![c] = NumbersUpTo(gn[c])]
            /\ Goto(c, "f42")
       ELSE /\ out' = [out EXCEPT ![c] = Return("list", NumbersUpTo(gn[c]), "g19")]
            /\ pc' = [pc EXCEPT ![c] = "done"]
            /\ UNCHANGED numbers
    /\ UNCHANGED <<fn, arg, n, gn, result, idx, num>>

\* ---- factorial ----
F34(c) ==
    /\ pc[c] = "f34"
    /\ IF ~IsInstanceInt(n[c])
       THEN Raised(c, "TypeError", "f35")
       ELSE Goto(c, "f36")
    /\ UNCHANGED <<fn, arg, n, gn, numbers, result, idx, num>>

F36(c) ==
    /\ pc[c] = "f36"
    /\ IF IsNegative(n[c])
       THEN Raised(c, "ValueError", "f37")
       ELSE Goto(c, "f38")
    /\ UNCHANGED <<fn, arg, n, gn, numbers, result, idx, num>>

F38(c) ==
    /\ pc[c] = "f38"
    /\ IF IsBaseCase(n[c])
       THEN /\ out' = [out EXCEPT ![c] = Return("int", BaseCaseValue, "f39")]
            /\ pc' = [pc EXCEPT ![c] = "done"]
       ELSE Goto(c, "f41")
    /\ UNCHANGED <<fn, arg, n, gn, numbers, result, idx, num>>

\* numbers = get_numbers_up_to(n): enter the callee
F41(c) ==
    /\ pc[c] = "f41"
    /\ gn' = [gn EXCEPT ![c] = n[c]]
    /\ Goto(c, "g14")
    /\ UNCHANGED <<fn, arg, n, numbers, result, idx, num>>

\* result = 1
F42(c) ==
    /\ pc[c] = "f42"
    /\ result' = [result EXCEPT ![c] = ResultSeed]
    /\ Goto(c, "f43")
    /\ UNCHANGED <<fn, arg, n, gn, numbers, idx, num>>

\* for num in numbers: the iterator yields the next element or stops
F43(c) ==
    /\ pc[c] = "f43"
    /\ IF idx[c] < Len(numbers[c])
       THEN /\ num' = [num EXCEPT ![c] = numbers[c][idx[c] + 1]]
            /\ idx' = [idx EXCEPT ![c] = idx[c] + 1]
            /\ Goto(c, "f44")
       ELSE /\ Goto(c, "f45")
            /\ UNCHANGED <<num, idx>>
    /\ UNCHANGED <<fn, arg, n, gn, numbers, result>>

\* result *= num
MulStepShared(res, c, m) == [d \in Callers |-> PyMul(res[c], m)]
MulStep(res, c, m) == [res EXCEPT ![c] = PyMul(res[c], m)]

F44(c) ==
    /\ pc[c] = "f44"
    /\ result' = MulStep(result, c, num[c])
    /\ Goto(c, "f43")
    /\ UNCHANGED <<fn, arg, n, gn, numbers, idx, num>>

\* return result
F45(c) ==
    /\ pc[c] = "f45"
    /\ out' = [out EXCEPT ![c] = Return("int", result[c], "f45")]
    /\ pc' = [pc EXCEPT ![c] = "done"]
    /\ UNCHANGED <<fn, arg, n, gn, numbers, result, idx, num>>

Next ==
    \E c \in Callers :
        \/ Call(c)
        \/ G14(c)
        \/ G16(c)
        \/ G19(c)
        \/ F34(c)
        \/ F36(c)
        \/ F38(c)
        \/ F41(c)
        \/ F42(c)
        \/ F43(c)
        \/ F44(c)
        \/ F45(c)

Spec == Init /\ [][Next]_vars

SpecBig == InitBig /\ [][Next]_vars

\* ---- exact arithmetic used to state the properties ----
RECURSIVE AddCarry(_, _, _, _)
AddCarry(a, b, i, carry) ==
    IF i > Len(a) /\ i > Len(b)
    THEN IF carry = 0 THEN <<>> ELSE <<carry>>
    ELSE LET x == IF i <= Len(a) THEN a[i] ELSE 0
             y == IF i <= Len(b) THEN b[i] ELSE 0
             t == x + y + carry
         IN <<t % Base>> \o AddCarry(a, b, i + 1, t \div Base)

BigAdd(a, b) == AddCarry(a, b, 1, 0)

\* k * a as a + a + ... + a, for k >= 1
RECURSIVE BigTimes(_, _)
BigTimes(k, a) == IF k = 1 THEN a ELSE BigAdd(a, BigTimes(k - 1, a))

\* the product 1 * 2 * ... * k, the empty product being 1
RECURSIVE Product(_)
Product(k) == IF k = 0 THEN <<1>> ELSE BigTimes(k, Product(k - 1))

RECURSIVE LessFrom(_, _, _)
LessFrom(a, b, i) ==
    IF i = 0 THEN FALSE
    ELSE IF a[i] # b[i] THEN a[i] < b[i]
    ELSE LessFrom(a, b, i - 1)

BigLess(a, b) ==
    IF Len(a) # Len(b) THEN Len(a) < Len(b) ELSE LessFrom(a, b, Len(a))

BigLeq(a, b) == a = b \/ BigLess(a, b)

\* 2^64 = 18446744073709551616 and 21! = 51090942171709440000
TwoTo64 == <<1616, 955, 737, 6744, 1844>>
Fact21 == <<0, 944, 1717, 942, 5109>>

FactDone(c) == fn[c] = "factorial" /\ pc[c] = "done" /\ arg[c].t = "int"
RangeDone(c) == fn[c] = "get_numbers_up_to" /\ pc[c] = "done" /\ arg[c].t = "int"

\* C1: for every integer n >= 0, factorial(n) returns exactly the product
\* of the integers 1..n (1 for n = 0), with factorial(5) = 120,
\* factorial(10) = 3628800 and factorial(21) the exact product above 2^64.
C1_ExactProduct ==
    \A c \in Callers :
        (FactDone(c) /\ arg[c].v >= 0) =>
            /\ out[c].kind = "int"
            /\ out[c].val = Product(arg[c].v)
            /\ arg[c].v \in {0, 1} => out[c].val = <<1>>
            /\ arg[c].v = 5 => out[c].val = <<120>>
            /\ arg[c].v = 10 => out[c].val = <<8800, 362>>
            /\ arg[c].v = 21 => out[c].val = Fact21 /\ BigLess(TwoTo64, out[c].val)

C1_Witness ==
    \E c \in Callers :
        FactDone(c) /\ arg[c].v = 21 /\ out[c].kind = "int" /\ BigLess(TwoTo64, out[c].val)

\* C2: for every integer n >= 1, get_numbers_up_to(n) returns a sequence of
\* exactly n elements whose element at 0-based index i is i + 1.
C2_RangeContents ==
    \A c \in Callers :
        (RangeDone(c) /\ arg[c].v >= 1) =>
            /\ out[c].kind = "list"
            /\ Len(out[c].val) = arg[c].v
            /\ \A i \in 0..(arg[c].v - 1) : out[c].val[i + 1] = i + 1
            /\ arg[c].v = 5 => out[c].val = <<1, 2, 3, 4, 5>>

C2_Witness ==
    \E c \in Callers :
        RangeDone(c) /\ arg[c].v = 5 /\ out[c].val = <<1, 2, 3, 4, 5>>

\* C3: factorial(n) = n * factorial(n - 1) for every integer n >= 2, and
\* factorial(0) = factorial(1) = 1.
C3_Recurrence ==
    \A c, d \in Callers :
        /\ (FactDone(c) /\ arg[c].v \in {0, 1}) =>
               out[c].kind = "int" /\ out[c].val = <<1>>
        /\ (FactDone(c) /\ FactDone(d) /\ arg[c].v >= 2 /\ arg[d].v = arg[c].v - 1) =>
               /\ out[c].kind = "int"
               /\ out[d].kind = "int"
               /\ out[c].val = BigTimes(arg[c].v, out[d].val)

C3_Witness ==
    \E c, d \in Callers :
        /\ FactDone(c) /\ FactDone(d)
        /\ arg[c].v = 5 /\ arg[d].v = 4
        /\ out[c].val = <<120>> /\ out[d].val = <<24>>

\* C4: factorial raises the value-range error exactly when its integer
\* argument is negative and returns a value for every n >= 0; on that
\* failure nothing is returned and neither the range nor the accumulator
\* has been created.
C4_FactorialRange ==
    \A c \in Callers :
        FactDone(c) =>
            /\ (out[c].kind = "ValueError") <=> (arg[c].v < 0)
            /\ (arg[c].v >= 0) => (out[c].kind = "int" /\ out[c].val # NoValue)
            /\ (out[c].kind = "ValueError") =>
                   /\ out[c].val = NoValue
                   /\ out[c].at = "f37"
                   /\ gn[c] = Unbound
                   /\ numbers[c] = NoValue
                   /\ result[c] = NoValue
                   /\ idx[c] = 0

C4_Witness ==
    \E c \in Callers :
        FactDone(c) /\ arg[c].v = -1 /\ out[c].kind = "ValueError"

\* C5: get_numbers_up_to raises the value-range error exactly when its
\* integer argument is below 1 (0 and -1 included) and returns a sequence
\* for every n >= 1; on that failure no sequence is returned.
C5_RangeRange ==
    \A c \in Callers :
        RangeDone(c) =>
            /\ (out[c].kind = "ValueError") <=> (arg[c].v < 1)
            /\ (arg[c].v >= 1) => out[c].kind = "list"
            /\ (arg[c].v < 1) => (out[c].kind # "list" /\ out[c].val = NoValue)

C5_Witness ==
    \E c, d \in Callers :
        /\ RangeDone(c) /\ arg[c].v = 0 /\ out[c].kind = "ValueError"
        /\ RangeDone(d) /\ arg[d].v = -1 /\ out[d].kind = "ValueError"

\* C6: both functions raise the type-mismatch error for every input that is
\* not an int (a float such as 3.5 or -2.5, a str such as "5"), from their
\* own type check: such an input never gives a value-range error or a result.
NotAnInt(c) == arg[c].t \in {"float", "str"}

C6_TypeFirst ==
    \A c \in Callers :
        NotAnInt(c) =>
            /\ out[c].kind \in {"none", "TypeError"}
            /\ pc[c] = "done" =>
                   /\ out[c].kind = "TypeError"
                   /\ out[c].at = (IF fn[c] = "factorial" THEN "f35" ELSE "g15")
                   /\ out[c].val = NoValue

C6_Witness ==
    \E c, d \in Callers :
        /\ fn[c] = "factorial" /\ fn[d] = "get_numbers_up_to"
        /\ arg[c] = PyFloat(-5) /\ arg[d] = PyFloat(-5)
        /\ pc[c] = "done" /\ pc[d] = "done"
        /\ out[c].kind = "TypeError" /\ out[d].kind = "TypeError"

\* C7: for every integer n >= 0, factorial(n + 1) >= factorial(n) >= 1,
\* with equality at n = 0 and strict increase for n >= 1.
C7_Monotone ==
    \A c, d \in Callers :
        (FactDone(c) /\ FactDone(d) /\ arg[c].v >= 0 /\ arg[d].v = arg[c].v + 1) =>
            /\ out[c].kind = "int" /\ out[d].kind = "int"
            /\ BigLeq(<<1>>, out[c].val)
            /\ BigLeq(out[c].val, out[d].val)
            /\ arg[c].v = 0 => out[d].val = out[c].val
            /\ arg[c].v >= 1 => BigLess(out[c].val, out[d].val)

C7_Witness ==
    \E c, d \in Callers :
        /\ FactDone(c) /\ FactDone(d)
        /\ arg[c].v = 3 /\ arg[d].v = 4
        /\ BigLess(out[c].val, out[d].val)

\* C8: with the callers' steps interleaved in any order, each call returns
\* or raises exactly what the same function gives when run alone on the
\* same argument.
Alone(c) == IF fn[c] = "factorial" THEN Factorial(arg[c]) ELSE GetNumbersUpTo(arg[c])

C8_Independent ==
    \A c \in Callers :
        (pc[c] = "done" /\ fn[c] \in Fns) => out[c] = Alone(c)

\* both callers are inside the multiplication loop at once, and one finishes
C8_Witness ==
    \E c, d \in Callers :
        /\ c # d
        /\ fn[c] = "factorial" /\ fn[d] = "factorial"
        /\ pc[c] = "done" /\ out[c].at = "f45"
        /\ pc[d] = "f44" /\ idx[d] >= 2
        /\ arg[c] # arg[d]

\* C9: factorial enters get_numbers_up_to only with an int n >= 2; for
\* n = 0 and n = 1 it returns 1 without generating a range, and no error
\* of a factorial call with n >= 0 comes from inside the generator.
InGenerator(c) == pc[c] \in {"g14", "g16", "g19"}

C9_GeneratorPrecondition ==
    \A c \in Callers :
        fn[c] = "factorial" =>
            /\ InGenerator(c) => (IsInstanceInt(gn[c]) /\ gn[c].v >= 2 /\ gn[c] = n[c])
            /\ gn[c] # Unbound => gn[c].v >= 2
            /\ out[c].at \notin {"g15", "g17"}
            /\ (pc[c] = "done" /\ arg[c].t = "int" /\ arg[c].v \in {0, 1}) =>
                   /\ out[c] = Return("int", <<1>>, "f39")
                   /\ gn[c] = Unbound
                   /\ numbers[c] = NoValue

C9_Witness ==
    \E c, d \in Callers :
        /\ fn[c] = "factorial" /\ pc[c] = "g16" /\ gn[c] = PyInt(2)
        /\ FactDone(d) /\ arg[d].v = 1 /\ gn[d] = Unbound

\* C10: for n >= 2 the loop starts with the accumulator at 1, takes the
\* elements 1, 2, ..., n in ascending order, has the accumulator equal to
\* k! after the k-th multiplication, stops after exactly n multiplications
\* and returns the accumulator.
C10_LoopInvariant ==
    \A c \in Callers :
        fn[c] = "factorial" =>
            /\ pc[c] \in {"f43", "f44", "f45"} => n[c].v >= 2
            /\ pc[c] = "f43" =>
                   /\ idx[c] \in 0..n[c].v
                   /\ result[c] = Product(idx[c])
                   /\ idx[c] = 0 => result[c] = <<1>>
            /\ pc[c] = "f44" =>
                   /\ idx[c] \in 1..n[c].v
                   /\ num[c] = idx[c]
                   /\ result[c] = Product(idx[c] - 1)
            /\ pc[c] = "f45" =>
                   /\ idx[c] = n[c].v
                   /\ result[c] = Product(n[c].v)
            /\ (pc[c] = "done" /\ out[c].at = "f45") =>
                   /\ idx[c] = n[c].v
                   /\ out[c].val = result[c]
                   /\ result[c] = Product(n[c].v)

C10_Witness ==
    \E c \in Callers :
        /\ fn[c] = "factorial" /\ pc[c] = "done" /\ out[c].at = "f45"
        /\ n[c].v = 21 /\ idx[c] = 21 /\ out[c].val = Fact21

====
